---- MODULE Spec2Model ----
(***************************************************************************)
(* LiveEdit text comparison (src/debug/liveedit.cc): the Differencer       *)
(* dynamic-programming engine, its ResultWriter, NarrowDownInput, the      *)
(* line-level and token-level inputs and outputs, CompareStrings and       *)
(* TranslatePosition; the size of the Differencer's table on inputs of any *)
(* length.  OutputStreamWriter (src/profiler/output-stream-writer.h) with  *)
(* its stream.                                                             *)
(*                                                                         *)
(* Texts are sequences of one-character strings; the code's 0-based        *)
(* positions are kept and Get(s, i) reads s[i + 1].                        *)
(***************************************************************************)
EXTENDS Integers, Sequences, FiniteSets, TLC

VARIABLES
  s1, s2,            \* the two flattened input strings of CompareStrings
  pc,                \* position inside CompareStrings
  in_off1, in_len1,  \* LineArrayCompareInput::subrange_offset1_, subrange_len1_
  in_off2, in_len2,  \* LineArrayCompareInput::subrange_offset2_, subrange_len2_
  out_off1, out_off2,\* TokenizingLineArrayCompareOutput::subrange_offset1_/2_
  buffer_,           \* Differencer::buffer_ of the line-level run
  top,               \* what the line-level FillTable returned and stored
  array_,            \* CompareOutputArrayWriter::array_ (current_size_ = Len)
  chunks,            \* arguments of every WriteChunk call, in order
  calls,             \* every TokenizingLineArrayCompareOutput::AddChunk call
  runs,              \* every Comparator::CalculateDifference run
  tp,                \* last TranslatePosition call: argument and result
  len1_, len2_,      \* Differencer::len1_, len2_ of a run on inputs of any size
  buffer_size,       \* the int given to NewArray<int> for that run's buffer_
  array_size,        \* the local array_size of that run's Initialize
  dpc,               \* position of that run inside Comparator::CalculateDifference
  chunk_size_,       \* OutputStreamWriter::chunk_size_
  chunk_,            \* OutputStreamWriter::chunk_, 0 where nothing was written
  chunk_pos_,        \* OutputStreamWriter::chunk_pos_
  aborted_,          \* OutputStreamWriter::aborted_
  events,            \* the calls made on stream_, in order, with their answers
  added,             \* the characters the callers asked to add, in order
  st,                \* "ok", or how the process stopped making progress
  failed,            \* the DCHECK that failed, if one did
  past_end,          \* the characters written past the end of chunk_
  ncalls,            \* the calls made on the writer
  abort_at,          \* the WriteAsciiChunk call answered kAbort first (0: none)
  dchecks            \* the build has DCHECKs compiled in

\* the state of CompareStrings and TranslatePosition
levars == <<s1, s2, pc, in_off1, in_len1, in_off2, in_len2, out_off1, out_off2,
            buffer_, top, array_, chunks, calls, runs, tp>>

\* the state of a Differencer on inputs of any size
dvars == <<len1_, len2_, buffer_size, array_size, dpc>>

\* the state of an OutputStreamWriter, its stream and its build
wvars == <<chunk_size_, chunk_, chunk_pos_, aborted_, events, added, st, failed,
           past_end, ncalls, abort_at, dchecks>>

vars == <<levars, dvars, wvars>>

----------------------------------------------------------------------------
(* Bounds of the checked inputs *)

MaxLen == 3

NL == "\n"

Alphabet == {"a", "b", NL}

Texts == UNION {[1..n -> Alphabet] : n \in 0..MaxLen}

----------------------------------------------------------------------------
(* Program constants *)

kDirectionSizeBits == 2

EQ == 0

SKIP1 == 1

SKIP2 == 2

SKIP_ANY == 3

CHUNK_LEN_LIMIT == 800

RECURSIVE Pow2(_)
Pow2(n) == IF n = 0 THEN 1 ELSE 2 * Pow2(n - 1)

kDirectionMask == Pow2(kDirectionSizeBits) - 1

\* ~0u << kDirectionSizeBits, read as a 32-bit int
kEmptyCellValue == 0 - Pow2(kDirectionSizeBits)

----------------------------------------------------------------------------
(* Strings *)

Get(s, i) == s[i + 1]

Min(a, b) == IF a < b THEN a ELSE b

CompareSubstrings(a, pos1, b, pos2, len) ==
  \A i \in 0..(len - 1) : Get(a, i + pos1) = Get(b, i + pos2)

\* String::CalculateLineEnds(string, false): the positions of the line
\* terminators, ascending; the end of an unterminated last line is not listed.
CalculateLineEnds(s) ==
  LET P == {i \in 0..(Len(s) - 1) : Get(s, i) = NL}
  IN  [k \in 1..Cardinality(P) |->
         CHOOSE i \in P : Cardinality({j \in P : j < i}) = k - 1]

LineEndsWrapper(s) == [ends_array_ |-> CalculateLineEnds(s), string_len_ |-> Len(s)]

LE_length(le) == Len(le.ends_array_) + 1

\* GetPosAfterNewLine that gives the position of the terminator itself
GetPosAfterNewLine_AtNewLine(le, index) == le.ends_array_[index + 1]

GetPosAfterNewLine(le, index) == le.ends_array_[index + 1] + 1

GetLineEnd(le, index) ==
  IF index = Len(le.ends_array_) THEN le.string_len_
  ELSE GetPosAfterNewLine(le, index)

GetLineStart(le, index) ==
  IF index = 0 THEN 0 ELSE GetLineEnd(le, index - 1)

----------------------------------------------------------------------------
(* Comparator inputs *)

\* Equals that reads the lines without the subrange offsets
LineEquals_NoOffset(a, b, le1, le2, off1, off2, index1, index2) ==
  LET line_start1 == GetLineStart(le1, index1)
      line_start2 == GetLineStart(le2, index2)
      len1 == GetLineEnd(le1, index1) - line_start1
      len2 == GetLineEnd(le2, index2) - line_start2
  IN  IF len1 # len2 THEN FALSE
      ELSE CompareSubstrings(a, line_start1, b, line_start2, len1)

\* LineArrayCompareInput::Equals with the subrange offsets off1, off2
LineEquals(a, b, le1, le2, off1, off2, index1, index2) ==
  LET i1 == index1 + off1
      i2 == index2 + off2
      line_start1 == GetLineStart(le1, i1)
      line_start2 == GetLineStart(le2, i2)
      len1 == GetLineEnd(le1, i1) - line_start1
      len2 == GetLineEnd(le2, i2) - line_start2
  IN  IF len1 # len2 THEN FALSE
      ELSE CompareSubstrings(a, line_start1, b, line_start2, len1)

\* TokensCompareInput::Equals
TokenEquals(a, offset1, b, offset2, index1, index2) ==
  Get(a, offset1 + index1) = Get(b, offset2 + index2)

\* the Equals answers of a line input over its current subrange
LineInput(a, b, le1, le2, off1, len1, off2, len2) ==
  [i \in 0..(len1 - 1), j \in 0..(len2 - 1) |->
     LineEquals(a, b, le1, le2, off1, off2, i, j)]

\* the Equals answers of a token input
TokensInput(a, offset1, len1, b, offset2, len2) ==
  [i \in 0..(len1 - 1), j \in 0..(len2 - 1) |->
     TokenEquals(a, offset1, b, offset2, i, j)]

----------------------------------------------------------------------------
(* Differencer *)

get_cell(len1, i1, i2) == i1 + i2 * len1

get_value4(buf, len1, i1, i2) ==
  LET c == buf[get_cell(len1, i1, i2)] IN c - (c % Pow2(kDirectionSizeBits))

get_direction(buf, len1, i1, i2) ==
  buf[get_cell(len1, i1, i2)] % Pow2(kDirectionSizeBits)

\* set_value4_and_dir that stores nothing
set_value4_and_dir_Lost(buf, len1, i1, i2, value4, dir) == buf

set_value4_and_dir(buf, len1, i1, i2, value4, dir) ==
  [buf EXCEPT ![get_cell(len1, i1, i2)] = value4 + dir]

Initialize(len1, len2) == [i \in 0..(len1 * len2 - 1) |-> kEmptyCellValue]

\* ChooseDir that records a tie as SKIP1
ChooseDir_TieIsSkip1(res1, res2) ==
  IF res1 <= res2 THEN SKIP1 ELSE SKIP2

\* ChooseDir with the comparison of the two results reversed
ChooseDir_Worse(res1, res2) ==
  IF res1 = res2 THEN SKIP_ANY ELSE IF res1 > res2 THEN SKIP1 ELSE SKIP2

\* which of the two skips a cell with unequal elements records
ChooseDir(res1, res2) ==
  IF res1 = res2 THEN SKIP_ANY ELSE IF res1 < res2 THEN SKIP1 ELSE SKIP2

\* Returns the table after the call, the call's result and the cells the call
\* stored, in order.
RECURSIVE CompareUpToTail(_, _, _, _, _, _, _)
CompareUpToTail(eq, len1, len2, buf, stores, pos1, pos2) ==
  IF pos1 < len1 THEN
    IF pos2 < len2 THEN
      LET cached_res == get_value4(buf, len1, pos1, pos2) IN
      IF cached_res = kEmptyCellValue THEN
        IF eq[pos1, pos2] THEN
          LET r == CompareUpToTail(eq, len1, len2, buf, stores, pos1 + 1, pos2 + 1)
          IN  [buf |-> set_value4_and_dir(r.buf, len1, pos1, pos2, r.res, EQ),
               res |-> r.res,
               stores |-> Append(r.stores, <<pos1, pos2>>)]
        ELSE
          LET r1 == CompareUpToTail(eq, len1, len2, buf, stores, pos1 + 1, pos2)
              r2 == CompareUpToTail(eq, len1, len2, r1.buf, r1.stores, pos1, pos2 + 1)
              res1 == r1.res + Pow2(kDirectionSizeBits)
              res2 == r2.res + Pow2(kDirectionSizeBits)
              dir == ChooseDir(res1, res2)
              res == IF dir = SKIP2 THEN res2 ELSE res1
          IN  [buf |-> set_value4_and_dir(r2.buf, len1, pos1, pos2, res, dir),
               res |-> res,
               stores |-> Append(r2.stores, <<pos1, pos2>>)]
      ELSE [buf |-> buf, res |-> cached_res, stores |-> stores]
    ELSE [buf |-> buf, res |-> (len1 - pos1) * Pow2(kDirectionSizeBits),
          stores |-> stores]
  ELSE [buf |-> buf, res |-> (len2 - pos2) * Pow2(kDirectionSizeBits),
        stores |-> stores]

FillTable(eq, len1, len2) ==
  CompareUpToTail(eq, len1, len2, Initialize(len1, len2), <<>>, 0, 0)

----------------------------------------------------------------------------
(* Differencer::ResultWriter; out is what it gave to chunk_writer_->AddChunk *)

ResultWriter ==
  [pos1_ |-> 0, pos2_ |-> 0, pos1_begin_ |-> -1, pos2_begin_ |-> -1,
   has_open_chunk_ |-> FALSE, out |-> <<>>, log |-> <<>>]

StartChunk(w) ==
  IF ~w.has_open_chunk_
  THEN [w EXCEPT !.pos1_begin_ = w.pos1_, !.pos2_begin_ = w.pos2_,
                 !.has_open_chunk_ = TRUE]
  ELSE w

\* FlushChunk that leaves the chunk open
FlushChunk_StaysOpen(w) ==
  IF w.has_open_chunk_
  THEN [w EXCEPT !.out = Append(w.out,
                           [pos1 |-> w.pos1_begin_, pos2 |-> w.pos2_begin_,
                            len1 |-> w.pos1_ - w.pos1_begin_,
                            len2 |-> w.pos2_ - w.pos2_begin_])]
  ELSE w

FlushChunk(w) ==
  IF w.has_open_chunk_
  THEN [w EXCEPT !.out = Append(w.out,
                           [pos1 |-> w.pos1_begin_, pos2 |-> w.pos2_begin_,
                            len1 |-> w.pos1_ - w.pos1_begin_,
                            len2 |-> w.pos2_ - w.pos2_begin_]),
                 !.has_open_chunk_ = FALSE]
  ELSE w

\* eq that leaves an open chunk open
W_eq_NoFlush(w) ==
  [w EXCEPT !.pos1_ = w.pos1_ + 1, !.pos2_ = w.pos2_ + 1]

W_eq(w) ==
  LET f == FlushChunk(w) IN [f EXCEPT !.pos1_ = f.pos1_ + 1, !.pos2_ = f.pos2_ + 1]

\* skip1 that advances by one element whatever the length given
W_skip1_ByOne(w, len1) ==
  LET f == StartChunk(w) IN [f EXCEPT !.pos1_ = f.pos1_ + 1]

\* skip1 that starts the chunk only after it has advanced
W_skip1_StartAfter(w, len1) ==
  StartChunk([w EXCEPT !.pos1_ = w.pos1_ + len1])

W_skip1(w, len1) ==
  LET f == StartChunk(w) IN [f EXCEPT !.pos1_ = f.pos1_ + len1]

\* skip2 that advances by one element whatever the length given
W_skip2_ByOne(w, len2) ==
  LET f == StartChunk(w) IN [f EXCEPT !.pos2_ = f.pos2_ + 1]

W_skip2(w, len2) ==
  LET f == StartChunk(w) IN [f EXCEPT !.pos2_ = f.pos2_ + len2]

W_close(w) == FlushChunk(w)

\* the step SaveResult takes at a cell whose direction is dir
Logged(w, pos1, pos2, dir, op, n) ==
  [w EXCEPT !.log = Append(w.log, [pos1 |-> pos1, pos2 |-> pos2, dir |-> dir,
                                   op |-> op, n |-> n])]

RECURSIVE SaveResultLoop_TieAsSkip1(_, _, _, _, _, _)
\* the walk of SaveResult with SKIP_ANY taken as skip1
SaveResultLoop_TieAsSkip1(buf, len1, len2, pos1, pos2, w) ==
  IF pos1 < len1 THEN
    IF pos2 < len2 THEN
      LET dir == get_direction(buf, len1, pos1, pos2) IN
      IF dir = EQ THEN
        SaveResultLoop_TieAsSkip1(buf, len1, len2, pos1 + 1, pos2 + 1,
                                  W_eq(Logged(w, pos1, pos2, dir, "eq", 1)))
      ELSE IF dir = SKIP1 \/ dir = SKIP_ANY THEN
        SaveResultLoop_TieAsSkip1(buf, len1, len2, pos1 + 1, pos2,
                                  W_skip1(Logged(w, pos1, pos2, dir, "skip1", 1), 1))
      ELSE
        SaveResultLoop_TieAsSkip1(buf, len1, len2, pos1, pos2 + 1,
                                  W_skip2(Logged(w, pos1, pos2, dir, "skip2", 1), 1))
    ELSE W_skip1(Logged(w, pos1, pos2, -1, "skip1", len1 - pos1), len1 - pos1)
  ELSE
    IF len2 # pos2
    THEN W_skip2(Logged(w, pos1, pos2, -1, "skip2", len2 - pos2), len2 - pos2)
    ELSE w

RECURSIVE SaveResultLoop(_, _, _, _, _, _)
SaveResultLoop(buf, len1, len2, pos1, pos2, w) ==
  IF pos1 < len1 THEN
    IF pos2 < len2 THEN
      LET dir == get_direction(buf, len1, pos1, pos2) IN
      IF dir = EQ THEN
        SaveResultLoop(buf, len1, len2, pos1 + 1, pos2 + 1,
                       W_eq(Logged(w, pos1, pos2, dir, "eq", 1)))
      ELSE IF dir = SKIP1 THEN
        SaveResultLoop(buf, len1, len2, pos1 + 1, pos2,
                       W_skip1(Logged(w, pos1, pos2, dir, "skip1", 1), 1))
      ELSE
        SaveResultLoop(buf, len1, len2, pos1, pos2 + 1,
                       W_skip2(Logged(w, pos1, pos2, dir, "skip2", 1), 1))
    ELSE W_skip1(Logged(w, pos1, pos2, -1, "skip1", len1 - pos1), len1 - pos1)
  ELSE
    IF len2 # pos2
    THEN W_skip2(Logged(w, pos1, pos2, -1, "skip2", len2 - pos2), len2 - pos2)
    ELSE w

SaveResult(buf, len1, len2) ==
  W_close(SaveResultLoop(buf, len1, len2, 0, 0, ResultWriter))

\* Comparator::CalculateDifference: the chunks given to the output, with the
\* value FillTable returned
CalculateDifference(eq, len1, len2) ==
  LET t == FillTable(eq, len1, len2)
      w == SaveResult(t.buf, len1, len2)
  IN  [out |-> w.out, res |-> t.res, w |-> w, stores |-> t.stores]

----------------------------------------------------------------------------
(* NarrowDownInput, on the line input with its initial (full) subrange *)

RECURSIVE PrefixLoop(_, _, _)
PrefixLoop(eq, common_prefix_len, prefix_limit) ==
  IF common_prefix_len < prefix_limit /\ eq[common_prefix_len, common_prefix_len]
  THEN PrefixLoop(eq, common_prefix_len + 1, prefix_limit)
  ELSE common_prefix_len

RECURSIVE SuffixLoop(_, _, _, _, _)
SuffixLoop(eq, len1, len2, common_suffix_len, suffix_limit) ==
  IF common_suffix_len < suffix_limit
     /\ eq[len1 - common_suffix_len - 1, len2 - common_suffix_len - 1]
  THEN SuffixLoop(eq, len1, len2, common_suffix_len + 1, suffix_limit)
  ELSE common_suffix_len

\* NarrowDownInput whose suffix scan is not limited by the prefix found
NarrowDownInput_SuffixOverPrefix(eq, len1, len2) ==
  LET common_prefix_len == PrefixLoop(eq, 0, Min(len1, len2))
      suffix_limit == Min(len1, len2)
      common_suffix_len == SuffixLoop(eq, len1, len2, 0, suffix_limit)
  IN  [common_prefix_len |-> common_prefix_len,
       common_suffix_len |-> common_suffix_len,
       narrowed |-> common_prefix_len > 0 \/ common_suffix_len > 0,
       new_len1 |-> len1 - common_suffix_len - common_prefix_len,
       new_len2 |-> len2 - common_suffix_len - common_prefix_len]

NarrowDownInput(eq, len1, len2) ==
  LET common_prefix_len == PrefixLoop(eq, 0, Min(len1, len2))
      suffix_limit == Min(len1 - common_prefix_len, len2 - common_prefix_len)
      common_suffix_len == SuffixLoop(eq, len1, len2, 0, suffix_limit)
  IN  [common_prefix_len |-> common_prefix_len,
       common_suffix_len |-> common_suffix_len,
       narrowed |-> common_prefix_len > 0 \/ common_suffix_len > 0,
       new_len1 |-> len1 - common_suffix_len - common_prefix_len,
       new_len2 |-> len2 - common_suffix_len - common_prefix_len]

----------------------------------------------------------------------------
(* Comparator outputs *)

\* WriteChunk whose third element is the end in the new text less the start
WriteChunk_NewLength(arr, c) ==
  arr \o <<c.pos1, c.pos1 + c.len1, c.len2>>

\* CompareOutputArrayWriter::WriteChunk: the three elements set in array_
WriteChunk(arr, c) ==
  arr \o <<c.pos1, c.pos1 + c.len1, c.pos2 + c.len2>>

\* TokensAddChunk without the translation to absolute positions
TokensAddChunk_NoOffset(offset1, offset2, c) ==
  [pos1 |-> c.pos1, pos2 |-> c.pos2, len1 |-> c.len1, len2 |-> c.len2]

\* TokensCompareOutput::AddChunk: the arguments it gives to WriteChunk
TokensAddChunk(offset1, offset2, c) ==
  [pos1 |-> c.pos1 + offset1, pos2 |-> c.pos2 + offset2,
   len1 |-> c.len1, len2 |-> c.len2]

\* the threshold test with both comparisons reversed
IsSmallChunk_Reversed(char_len1, char_len2) ==
  char_len1 > CHUNK_LEN_LIMIT /\ char_len2 > CHUNK_LEN_LIMIT

\* the threshold test that lets a length equal to the limit pass
IsSmallChunk_Inclusive(char_len1, char_len2) ==
  char_len1 <= CHUNK_LEN_LIMIT /\ char_len2 <= CHUNK_LEN_LIMIT

\* the test of TokenizingLineArrayCompareOutput::AddChunk for a nested diff
IsSmallChunk(char_len1, char_len2) ==
  char_len1 < CHUNK_LEN_LIMIT /\ char_len2 < CHUNK_LEN_LIMIT

\* the output's line position without the subrange offset
OutputLinePos_NoOffset(line_pos, subrange_offset) == line_pos

\* line_pos += subrange_offset_ in TokenizingLineArrayCompareOutput::AddChunk
OutputLinePos(line_pos, subrange_offset) == line_pos + subrange_offset

\* TokenizingLineArrayCompareOutput::AddChunk for the line-level chunk c:
\* the character span, the absolute line span, whether a nested diff ran, that
\* run and the WriteChunk calls made, in order.
TokenizingAddChunk(a, b, le1, le2, so1, so2, c) ==
  LET line_pos1 == OutputLinePos(c.pos1, so1)
      line_pos2 == OutputLinePos(c.pos2, so2)
      char_pos1 == GetLineStart(le1, line_pos1)
      char_pos2 == GetLineStart(le2, line_pos2)
      char_len1 == GetLineStart(le1, line_pos1 + c.len1) - char_pos1
      char_len2 == GetLineStart(le2, line_pos2 + c.len2) - char_pos2
      span == [pos1 |-> char_pos1, pos2 |-> char_pos2,
               len1 |-> char_len1, len2 |-> char_len2]
      lines == [pos1 |-> line_pos1, pos2 |-> line_pos2,
                len1 |-> c.len1, len2 |-> c.len2]
  IN  IF IsSmallChunk(char_len1, char_len2)
      THEN LET d == CalculateDifference(
                      TokensInput(a, char_pos1, char_len1, b, char_pos2, char_len2),
                      char_len1, char_len2)
           IN  [span |-> span, lines |-> lines, nested |-> TRUE,
                run |-> <<[level |-> "token", off1 |-> char_pos1, len1 |-> char_len1,
                           off2 |-> char_pos2, len2 |-> char_len2,
                           res |-> d.res, out |-> d.out, log |-> d.w.log,
                           stores |-> d.stores, pos1_ |-> d.w.pos1_,
                           pos2_ |-> d.w.pos2_,
                           has_open_chunk_ |-> d.w.has_open_chunk_]>>,
                written |-> [k \in 1..Len(d.out) |->
                               TokensAddChunk(char_pos1, char_pos2, d.out[k])]]
      ELSE [span |-> span, lines |-> lines, nested |-> FALSE, run |-> <<>>,
            written |-> <<span>>]

RECURSIVE Flatten(_)
Flatten(ss) == IF ss = <<>> THEN <<>> ELSE Head(ss) \o Flatten(Tail(ss))

RECURSIVE WriteAll(_, _)
WriteAll(arr, cs) ==
  IF cs = <<>> THEN arr ELSE WriteAll(WriteChunk(arr, Head(cs)), Tail(cs))

----------------------------------------------------------------------------
(* TranslatePosition *)

\* the loop adding up the differences of all the chunks passed
RECURSIVE TranslateLoop_Adding(_, _, _, _)
TranslateLoop_Adding(arr, original_position, i, position_diff) ==
  IF i < Len(arr) THEN
    LET chunk_start == arr[i + 1] IN
    IF original_position < chunk_start THEN position_diff
    ELSE TranslateLoop_Adding(arr, original_position, i + 3,
                              position_diff + arr[i + 3] - arr[i + 2])
  ELSE position_diff

RECURSIVE TranslateLoop(_, _, _, _)
TranslateLoop(arr, original_position, i, position_diff) ==
  IF i < Len(arr) THEN
    LET chunk_start == arr[i + 1] IN
    IF original_position < chunk_start THEN position_diff
    ELSE TranslateLoop(arr, original_position, i + 3, arr[i + 3] - arr[i + 2])
  ELSE position_diff

TranslatePosition(original_position, arr) ==
  original_position + TranslateLoop(arr, original_position, 0, 0)

----------------------------------------------------------------------------
(* Inputs *)

Long(n) == [i \in 1..n |-> "a"]

\* texts around the nested-diff threshold, paired with texts that keep the
\* table small
LongPairs ==
  UNION {{<<Long(n), <<"a">>>>, <<<<"a">>, Long(n)>>,
          <<<<"b", NL>> \o Long(n), <<"b", NL>>>>} :
         n \in (CHUNK_LEN_LIMIT - 1)..(CHUNK_LEN_LIMIT + 1)}

Inputs == (Texts \X Texts) \cup LongPairs

NoTP == [pos |-> -1, res |-> -1]

----------------------------------------------------------------------------
(* LiveEdit::CompareStrings, then TranslatePosition on its result *)

\* no OutputStreamWriter is constructed
WriterIdle ==
  /\ chunk_size_ = 0 /\ chunk_ = <<>> /\ chunk_pos_ = 0
  /\ aborted_ = FALSE
  /\ events = <<>> /\ added = <<>>
  /\ st = "idle" /\ failed = "" /\ past_end = 0
  /\ ncalls = 0 /\ abort_at = 0 /\ dchecks = FALSE

\* no Differencer on inputs of any size is running
DifferencerIdle ==
  /\ len1_ = 0 /\ len2_ = 0
  /\ buffer_size = 0 /\ array_size = 0
  /\ dpc = "idle"

Init ==
  /\ \E p \in Inputs : s1 = p[1] /\ s2 = p[2]
  /\ pc = "start"
  /\ in_off1 = 0 /\ in_len1 = LE_length(LineEndsWrapper(s1))
  /\ in_off2 = 0 /\ in_len2 = LE_length(LineEndsWrapper(s2))
  /\ out_off1 = 0 /\ out_off2 = 0
  /\ buffer_ = <<>>
  /\ top = [res |-> -1, stores |-> <<>>]
  /\ array_ = <<>>
  /\ chunks = <<>>
  /\ calls = <<>>
  /\ runs = <<>>
  /\ tp = NoTP
  /\ DifferencerIdle
  /\ WriterIdle

DoNarrowDownInput ==
  /\ pc = "start"
  /\ LET le1 == LineEndsWrapper(s1)
         le2 == LineEndsWrapper(s2)
         eq == LineInput(s1, s2, le1, le2, in_off1, in_len1, in_off2, in_len2)
         n == NarrowDownInput(eq, in_len1, in_len2)
     IN  IF n.narrowed
         THEN /\ in_off1' = n.common_prefix_len /\ in_len1' = n.new_len1
              /\ in_off2' = n.common_prefix_len /\ in_len2' = n.new_len2
              /\ out_off1' = n.common_prefix_len
              /\ out_off2' = n.common_prefix_len
         ELSE UNCHANGED <<in_off1, in_len1, in_off2, in_len2, out_off1, out_off2>>
  /\ pc' = "narrowed"
  /\ UNCHANGED <<s1, s2, buffer_, top, array_, chunks, calls, runs, tp>>
  /\ UNCHANGED <<dvars, wvars>>

\* Differencer(input), Initialize and FillTable of the line-level run
DoFillTable ==
  /\ pc = "narrowed"
  /\ LET le1 == LineEndsWrapper(s1)
         le2 == LineEndsWrapper(s2)
         eq == LineInput(s1, s2, le1, le2, in_off1, in_len1, in_off2, in_len2)
         t == FillTable(eq, in_len1, in_len2)
     IN  /\ buffer_' = t.buf
         /\ top' = [res |-> t.res, stores |-> t.stores]
  /\ pc' = "filled"
  /\ UNCHANGED <<s1, s2, in_off1, in_len1, in_off2, in_len2, out_off1, out_off2,
                 array_, chunks, calls, runs, tp>>
  /\ UNCHANGED <<dvars, wvars>>

\* SaveResult of the line-level run, with every AddChunk it makes; the array
\* is then returned
DoSaveResult ==
  /\ pc = "filled"
  /\ LET le1 == LineEndsWrapper(s1)
         le2 == LineEndsWrapper(s2)
         w == SaveResult(buffer_, in_len1, in_len2)
         cs == [k \in 1..Len(w.out) |->
                  TokenizingAddChunk(s1, s2, le1, le2, out_off1, out_off2, w.out[k])]
         written == Flatten([k \in 1..Len(cs) |-> cs[k].written])
     IN  /\ calls' = cs
         /\ chunks' = written
         /\ array_' = WriteAll(array_, written)
         /\ runs' = <<[level |-> "line", off1 |-> in_off1, len1 |-> in_len1,
                       off2 |-> in_off2, len2 |-> in_len2,
                       res |-> top.res, out |-> w.out, log |-> w.log,
                       stores |-> top.stores, pos1_ |-> w.pos1_,
                       pos2_ |-> w.pos2_,
                       has_open_chunk_ |-> w.has_open_chunk_]>>
                    \o Flatten([k \in 1..Len(cs) |-> cs[k].run])
  /\ pc' = "done"
  /\ UNCHANGED <<s1, s2, in_off1, in_len1, in_off2, in_len2, out_off1, out_off2,
                 buffer_, top, tp>>
  /\ UNCHANGED <<dvars, wvars>>

\* one TranslatePosition call on the returned array
DoTranslatePosition ==
  /\ pc = "done"
  /\ \E p \in 0..Len(s1) :
       tp' = [pos |-> p, res |-> TranslatePosition(p, array_)]
  /\ pc' = "translated"
  /\ UNCHANGED <<s1, s2, in_off1, in_len1, in_off2, in_len2, out_off1,
                 out_off2, buffer_, top, array_, chunks, calls, runs>>
  /\ UNCHANGED <<dvars, wvars>>

Next ==
  \/ DoNarrowDownInput
  \/ DoFillTable
  \/ DoSaveResult
  \/ DoTranslatePosition

Spec == Init /\ [][Next]_vars

----------------------------------------------------------------------------
(* The size of the Differencer's table on inputs of any length.  The steps  *)
(* of Comparator::CalculateDifference are taken on the two lengths alone:   *)
(* the int product len1_ * len2_ is all the constructor and Initialize use. *)

\* the lengths GetLength1() and GetLength2() may return
Lengths == {0, 1, 2, 46340, 46341, 65535, 65536, 65537, 92682}

\* the width of int
kBitsPerInt == 32

\* a * b for 0 <= a, b < 2^17 as hi * 2^16 + lo with 0 <= lo < 2^16, computed
\* on the bytes of a and b so that no intermediate value leaves the ints
ProductHiLo(a, b) ==
  LET a1 == a \div 256
      a0 == a % 256
      b1 == b \div 256
      b0 == b % 256
      mid == a1 * b0 + a0 * b1
      low == (mid % 256) * 256 + a0 * b0
  IN  [hi |-> a1 * b1 + (mid \div 256) + (low \div 65536), lo |-> low % 65536]

\* a * b is an int
FitsInt(a, b) == ProductHiLo(a, b).hi < Pow2(kBitsPerInt - 17)

\* the low kBitsPerInt bits of a * b read as an int in two's complement
WrappedProduct(a, b) ==
  LET p == ProductHiLo(a, b)
      hi == p.hi % 65536
  IN  IF hi < Pow2(kBitsPerInt - 17)
      THEN hi * 65536 + p.lo
      ELSE (hi - 65536) * 65536 + p.lo

\* nothing of CompareStrings is running
LiveEditIdle ==
  /\ s1 = <<>> /\ s2 = <<>>
  /\ pc = "idle"
  /\ in_off1 = 0 /\ in_len1 = 0
  /\ in_off2 = 0 /\ in_len2 = 0
  /\ out_off1 = 0 /\ out_off2 = 0
  /\ buffer_ = <<>>
  /\ top = [res |-> -1, stores |-> <<>>]
  /\ array_ = <<>>
  /\ chunks = <<>>
  /\ calls = <<>>
  /\ runs = <<>>
  /\ tp = NoTP

InitSize ==
  /\ LiveEditIdle
  /\ WriterIdle
  /\ len1_ \in Lengths /\ len2_ \in Lengths
  /\ buffer_size = 0 /\ array_size = 0
  /\ dpc = "input"

\* Differencer::Differencer: buffer_ = NewArray<int>(len1_ * len2_). When the
\* product is no int the multiplication is undefined: the build either
\* keeps the low bits or traps.
NewDifferencer ==
  /\ dpc = "input"
  /\ \/ /\ buffer_size' = WrappedProduct(len1_, len2_)
        /\ dpc' = "constructed"
     \/ /\ ~FitsInt(len1_, len2_)
        /\ buffer_size' = buffer_size
        /\ dpc' = "trapped"
  /\ UNCHANGED <<len1_, len2_, array_size>>
  /\ UNCHANGED <<levars, wvars>>

\* Differencer::Initialize: int array_size = len1_ * len2_, then that many
\* cells are set
DifferencerInitialize ==
  /\ dpc = "constructed"
  /\ \/ /\ array_size' = WrappedProduct(len1_, len2_)
        /\ dpc' = "initialized"
     \/ /\ ~FitsInt(len1_, len2_)
        /\ array_size' = array_size
        /\ dpc' = "trapped"
  /\ UNCHANGED <<len1_, len2_, buffer_size>>
  /\ UNCHANGED <<levars, wvars>>

\* Differencer::FillTable, called whatever the sizes are
DifferencerFillTable ==
  /\ dpc = "initialized"
  /\ dpc' = "filled"
  /\ UNCHANGED <<len1_, len2_, buffer_size, array_size>>
  /\ UNCHANGED <<levars, wvars>>

\* Differencer::SaveResult, called whatever the sizes are: the chunks are
\* given to the output
DifferencerSaveResult ==
  /\ dpc = "filled"
  /\ dpc' = "saved"
  /\ UNCHANGED <<len1_, len2_, buffer_size, array_size>>
  /\ UNCHANGED <<levars, wvars>>

NextSize ==
  \/ NewDifferencer
  \/ DifferencerInitialize
  \/ DifferencerFillTable
  \/ DifferencerSaveResult

SpecSize == InitSize /\ [][NextSize]_vars

----------------------------------------------------------------------------
(* OutputStreamWriter.  Characters are their codes.  The operators work on  *)
(* a record w of the writer's fields and what its stream has seen; the      *)
(* chunk size, the stream's answers and the build do not change.            *)

\* MaxDecimalDigitsIn<sizeof(unsigned)>::kUnsigned + 1
kMaxNumberSize == 11

\* the writer's fields and the ghost fields, as one record
Writer ==
  [chunk_ |-> chunk_, chunk_pos_ |-> chunk_pos_, aborted_ |-> aborted_,
   events |-> events, added |-> added, st |-> st, failed |-> failed,
   past_end |-> past_end]

\* the WriteAsciiChunk calls among the events es
ChunkEvents(es) == SelectSeq(es, LAMBDA e : e.call = "WriteAsciiChunk")

\* the stream's answer to its next WriteAsciiChunk call
NextAnswer(w) ==
  IF abort_at # 0 /\ Len(ChunkEvents(w.events)) + 1 >= abort_at
  THEN "kAbort" ELSE "kContinue"

\* a DCHECK that does not hold: the process ends in a build with DCHECKs
Fatal(w, dcheck) == [w EXCEPT !.st = "fatal", !.failed = dcheck]

\* the first n characters of chunk_
ChunkData(w, n) == [i \in 1..n |-> w.chunk_[i - 1]]

\* chunk_ with the characters cs copied to position pos on
Copied(chunk, pos, cs) ==
  [i \in DOMAIN chunk |->
     IF pos <= i /\ i < pos + Len(cs) THEN cs[i - pos + 1] ELSE chunk[i]]

\* WriteChunk that forgets to reset chunk_pos_
StreamWriteChunk_NoReset(w) ==
  IF w.aborted_ THEN w
  ELSE LET answer == NextAnswer(w) IN
       [w EXCEPT !.events = Append(w.events,
                              [call |-> "WriteAsciiChunk",
                               data |-> ChunkData(w, w.chunk_pos_),
                               answer |-> answer]),
                 !.aborted_ = (answer = "kAbort")]

\* OutputStreamWriter::WriteChunk
StreamWriteChunk(w) ==
  IF w.aborted_ THEN w
  ELSE LET answer == NextAnswer(w) IN
       [w EXCEPT !.events = Append(w.events,
                              [call |-> "WriteAsciiChunk",
                               data |-> ChunkData(w, w.chunk_pos_),
                               answer |-> answer]),
                 !.aborted_ = (answer = "kAbort"),
                 !.chunk_pos_ = 0]

MaybeWriteChunk(w) ==
  IF dchecks /\ ~(w.chunk_pos_ <= chunk_size_)
  THEN Fatal(w, "chunk_pos_ <= chunk_size_")
  ELSE IF w.chunk_pos_ = chunk_size_ THEN StreamWriteChunk(w) ELSE w

\* AddCharacter. Without DCHECKs a write at chunk_pos_ >= chunk_size_ goes
\* past the end of chunk_: undefined, the process goes on (ub = "goes_on")
\* or ends (ub = "crash").
AddCharacter(w, c, ub) ==
  IF dchecks /\ ~(w.chunk_pos_ < chunk_size_)
  THEN Fatal(w, "chunk_pos_ < chunk_size_")
  ELSE IF w.chunk_pos_ >= chunk_size_
  THEN IF ub = "crash"
       THEN [w EXCEPT !.st = "crashed", !.past_end = w.past_end + 1]
       ELSE MaybeWriteChunk([w EXCEPT !.chunk_pos_ = w.chunk_pos_ + 1,
                                      !.past_end = w.past_end + 1,
                                      !.added = Append(w.added, c)])
  ELSE MaybeWriteChunk([w EXCEPT !.chunk_ = Copied(w.chunk_, w.chunk_pos_, <<c>>),
                                 !.chunk_pos_ = w.chunk_pos_ + 1,
                                 !.added = Append(w.added, c)])

RECURSIVE AddSubstringLoop(_, _)
\* the while loop of AddSubstring on the characters s left to copy. An
\* iteration with s_chunk_size = 0 changes nothing, so the loop never ends;
\* a negative s_chunk_size is given to MemCopy as a size.
AddSubstringLoop(w, s) ==
  IF s = <<>> THEN w
  ELSE LET s_chunk_size == Min(chunk_size_ - w.chunk_pos_, Len(s)) IN
       IF s_chunk_size <= 0
       THEN IF dchecks THEN Fatal(w, "s_chunk_size > 0")
            ELSE IF s_chunk_size = 0 THEN [w EXCEPT !.st = "looping"]
            ELSE [w EXCEPT !.st = "crashed"]
       ELSE AddSubstringLoop(
              MaybeWriteChunk(
                [w EXCEPT !.chunk_ = Copied(w.chunk_, w.chunk_pos_,
                                            SubSeq(s, 1, s_chunk_size)),
                          !.chunk_pos_ = w.chunk_pos_ + s_chunk_size,
                          !.added = w.added \o SubSeq(s, 1, s_chunk_size)]),
              SubSeq(s, s_chunk_size + 1, Len(s)))

AddSubstring(w, s, n) ==
  IF n <= 0 THEN w ELSE AddSubstringLoop(w, SubSeq(s, 1, n))

AddString(w, s) == AddSubstring(w, s, Len(s))

RECURSIVE DecimalDigits(_)
\* what SNPrintF writes for "%u"
DecimalDigits(n) ==
  IF n < 10 THEN <<48 + n>> ELSE Append(DecimalDigits(n \div 10), 48 + (n % 10))

\* AddNumber; SNPrintF ends what it writes with a 0
AddNumber(w, n) ==
  IF chunk_size_ - w.chunk_pos_ >= kMaxNumberSize
  THEN LET d == DecimalDigits(n) IN
       MaybeWriteChunk([w EXCEPT !.chunk_ = Copied(w.chunk_, w.chunk_pos_,
                                                   Append(d, 0)),
                                 !.chunk_pos_ = w.chunk_pos_ + Len(d),
                                 !.added = w.added \o d])
  ELSE AddString(w, DecimalDigits(n))

Finalize(w) ==
  IF w.aborted_ THEN w
  ELSE IF dchecks /\ ~(w.chunk_pos_ < chunk_size_)
  THEN Fatal(w, "chunk_pos_ < chunk_size_")
  ELSE LET f == IF w.chunk_pos_ # 0 THEN StreamWriteChunk(w) ELSE w IN
       [f EXCEPT !.events = Append(f.events, [call |-> "EndOfStream"])]

RECURSIVE AddCharacters(_, _, _)
\* AddCharacter calls one after the other; a call is made only when the
\* call before it returned
AddCharacters(w, cs, ub) ==
  IF cs = <<>> \/ w.st # "ok" THEN w
  ELSE AddCharacters(AddCharacter(w, Head(cs), ub), Tail(cs), ub)

\* hex_chars[k]
HexChar(k) == IF k < 10 THEN 48 + k ELSE 55 + k

AddUChar(w, u, ub) ==
  LET a == AddString(w, <<92, 117>>) IN
  AddCharacters(a, <<HexChar((u \div 4096) % 16), HexChar((u \div 256) % 16),
                     HexChar((u \div 16) % 16), HexChar(u % 16)>>, ub)

\* the letter of the two-character escape of c
EscapeLetter(c) ==
  CASE c = 8 -> 98 [] c = 12 -> 102 [] c = 10 -> 110 [] c = 13 -> 114
    [] c = 9 -> 116

\* one turn of SerializeString's loop, for a character below 128
SerializeCharacter(w, c, ub) ==
  IF c \in {8, 12, 10, 13, 9} THEN AddString(w, <<92, EscapeLetter(c)>>)
  ELSE IF c \in {34, 92} THEN AddCharacters(w, <<92, c>>, ub)
  ELSE IF c > 31 /\ c < 128 THEN AddCharacter(w, c, ub)
  ELSE AddUChar(w, c, ub)

RECURSIVE SerializeCharacters(_, _, _)
SerializeCharacters(w, s, ub) ==
  IF s = <<>> \/ w.st # "ok" THEN w
  ELSE SerializeCharacters(SerializeCharacter(w, Head(s), ub), Tail(s), ub)

SerializeString(w, s, ub) ==
  LET a == AddCharacters(w, <<10, 34>>, ub)
      b == SerializeCharacters(a, s, ub)
  IN AddCharacters(b, <<34>>, ub)

\* calls made on one writer
MaxCalls == 3

\* chunk sizes a stream may ask for: GetChunkSize()
ChunkSizes == {1, 3, 12}

\* the number of the first WriteAsciiChunk call the stream answers with
\* kAbort; 0 for a stream that never does
AbortAts == {0, 1, 2}

\* what a write past the end of chunk_ does to the process
PastEndOutcomes == {"goes_on", "crash"}

Characters == {97}
Strings == {<<>>, <<98, 99>>, <<100, 101, 102, 103>>}
Substrings == {<<<<100, 101, 102, 103>>, 0>>, <<<<100, 101, 102, 103>>, 3>>}
Numbers == {0, 2147483647}
JsonStrings == {<<97, 34>>, <<10, 7>>}

\* the constructor, on a stream with its chunk size and its answers
InitWriter ==
  /\ LiveEditIdle
  /\ DifferencerIdle
  /\ chunk_size_ \in ChunkSizes
  /\ chunk_ = [i \in 0..(chunk_size_ - 1) |-> 0]
  /\ chunk_pos_ = 0
  /\ aborted_ = FALSE
  /\ events = <<>>
  /\ added = <<>>
  /\ st = "ok"
  /\ failed = ""
  /\ past_end = 0
  /\ ncalls = 0
  /\ abort_at \in AbortAts
  /\ dchecks \in BOOLEAN

\* the writer after a call that left it as w
WriterReturns(w) ==
  /\ chunk_' = w.chunk_
  /\ chunk_pos_' = w.chunk_pos_
  /\ aborted_' = w.aborted_
  /\ events' = w.events
  /\ added' = w.added
  /\ st' = w.st
  /\ failed' = w.failed
  /\ past_end' = w.past_end
  /\ ncalls' = ncalls + 1
  /\ UNCHANGED <<chunk_size_, abort_at, dchecks>>
  /\ UNCHANGED <<levars, dvars>>

\* the process is running and may call the writer once more
CanCall == st = "ok" /\ ncalls < MaxCalls

DoAddCharacter ==
  /\ CanCall
  /\ \E c \in Characters, ub \in PastEndOutcomes :
       WriterReturns(AddCharacter(Writer, c, ub))

DoAddString ==
  /\ CanCall
  /\ \E s \in Strings : WriterReturns(AddString(Writer, s))

DoAddSubstring ==
  /\ CanCall
  /\ \E a \in Substrings : WriterReturns(AddSubstring(Writer, a[1], a[2]))

DoAddNumber ==
  /\ CanCall
  /\ \E n \in Numbers : WriterReturns(AddNumber(Writer, n))

DoSerializeString ==
  /\ CanCall
  /\ \E s \in JsonStrings, ub \in PastEndOutcomes :
       WriterReturns(SerializeString(Writer, s, ub))

DoFinalize ==
  /\ CanCall
  /\ WriterReturns(Finalize(Writer))

NextWriter ==
  \/ DoAddCharacter
  \/ DoAddString
  \/ DoAddSubstring
  \/ DoAddNumber
  \/ DoSerializeString
  \/ DoFinalize

SpecWriter == InitWriter /\ [][NextWriter]_vars

----------------------------------------------------------------------------
(* Definitions used to state the properties *)

Returned == pc \in {"done", "translated"}

Chars(s) == {s[i] : i \in 1..Len(s)}

SingleLine(s) == NL \notin Chars(s)

RECURSIVE ChunkSum(_)
ChunkSum(cs) ==
  IF cs = <<>> THEN 0 ELSE Head(cs).len1 + Head(cs).len2 + ChunkSum(Tail(cs))

\* a with every chunk's span [pos1, pos1 + len1) replaced by b's span
\* [pos2, pos2 + len2), in order, from position cursor of a on
RECURSIVE ApplyFrom(_, _, _, _)
ApplyFrom(a, b, cs, cursor) ==
  IF cs = <<>> THEN SubSeq(a, cursor + 1, Len(a))
  ELSE LET c == Head(cs)
       IN  SubSeq(a, cursor + 1, c.pos1)
           \o SubSeq(b, c.pos2 + 1, c.pos2 + c.len2)
           \o ApplyFrom(a, b, Tail(cs), c.pos1 + c.len1)

ApplyChunks(a, b, cs) == ApplyFrom(a, b, cs, 0)

MinOf(S) == CHOOSE m \in S : \A n \in S : m <= n

MaxOf(S) == CHOOSE m \in S : \A n \in S : n <= m

\* Length of a longest common subsequence of x and y. T[k] is the least j
\* such that the first i elements of x and the first j of y have a common
\* subsequence of length k (Len(y) + 1 when there is none).
RECURSIVE LcsRows(_, _, _, _)
LcsRows(x, y, i, T) ==
  IF i > Len(x) THEN T
  ELSE LET hit(k) == {j \in (T[k - 1] + 1)..Len(y) : y[j] = x[i]}
           T2 == [k \in 0..Len(x) |->
                    IF k = 0 THEN 0
                    ELSE IF T[k - 1] > Len(y) \/ hit(k) = {} THEN T[k]
                    ELSE Min(T[k], MinOf(hit(k)))]
       IN  LcsRows(x, y, i + 1, T2)

LcsShortFirst(x, y) ==
  LET T == LcsRows(x, y, 1, [k \in 0..Len(x) |-> IF k = 0 THEN 0 ELSE Len(y) + 1])
  IN  MaxOf({k \in 0..Len(x) : T[k] <= Len(y)})

LCS(x, y) == IF Len(x) <= Len(y) THEN LcsShortFirst(x, y) ELSE LcsShortFirst(y, x)

\* the fewest skipped elements of any alignment of x with y
MinCost(x, y) == Len(x) + Len(y) - 2 * LCS(x, y)

\* line k (0-based) of s, terminator included, read off the terminators
LineText(s, k) ==
  LET nl == {i \in 1..Len(s) : s[i] = NL}
      before(i) == Cardinality({j \in nl : j < i})
      idx == {i \in 1..Len(s) : before(i) = k}
  IN  [n \in 1..Cardinality(idx) |-> s[MinOf(idx) + n - 1]]

LineCount(s) == Cardinality({i \in 1..Len(s) : s[i] = NL}) + 1

LinesOf(s) == [k \in 1..LineCount(s) |-> LineText(s, k - 1)]

\* the two element sequences a CalculateDifference run r compared
RunSeq1(r) ==
  IF r.level = "token" THEN SubSeq(s1, r.off1 + 1, r.off1 + r.len1)
  ELSE SubSeq(LinesOf(s1), r.off1 + 1, r.off1 + r.len1)

RunSeq2(r) ==
  IF r.level = "token" THEN SubSeq(s2, r.off2 + 1, r.off2 + r.len2)
  ELSE SubSeq(LinesOf(s2), r.off2 + 1, r.off2 + r.len2)

----------------------------------------------------------------------------
(* C1..C5 *)

\* C1: applying the chunks CompareStrings wrote to the old text, each old span
\* replaced by its new span and everything else kept, gives the new text.
C1_Reconstruction == Returned => ApplyChunks(s1, s2, chunks) = s2

\* C1 witness: two line-level chunks were re-diffed, the second one away from
\* position 0, and each wrote a chunk
C1_Witness ==
  /\ pc = "done"
  /\ Len(calls) >= 2
  /\ \A k \in 1..Len(calls) : calls[k].nested /\ Len(calls[k].written) >= 1
  /\ calls[2].span.pos1 > 0 /\ calls[2].span.pos2 > 0

\* C2: identical texts give no chunk at all.
C2_IdenticalGivesNoChunk ==
  (Returned /\ s1 = s2) => (array_ = <<>> /\ chunks = <<>>)

\* C2 witness: a text of several lines that ends with a line terminator was
\* compared with itself
C2_Witness ==
  /\ pc = "done" /\ s1 = s2
  /\ Len(s1) >= 2 /\ s1[Len(s1)] = NL /\ LineCount(s1) >= 3

\* C3: consecutive chunks do not overlap in either text and their starts
\* strictly increase in both texts.
C3_OrderedNonOverlapping ==
  Returned =>
    \A i \in 1..(Len(chunks) - 1) :
      /\ chunks[i].pos1 + chunks[i].len1 <= chunks[i + 1].pos1
      /\ chunks[i].pos2 + chunks[i].len2 <= chunks[i + 1].pos2
      /\ chunks[i].pos1 < chunks[i + 1].pos1
      /\ chunks[i].pos2 < chunks[i + 1].pos2

\* C3 witness: consecutive chunks that come from nested diffs of two different
\* line-level chunks
C3_Witness ==
  /\ pc = "done"
  /\ Len(calls) >= 2
  /\ calls[1].nested /\ calls[2].nested
  /\ Len(calls[1].written) >= 1 /\ Len(calls[2].written) >= 1
  /\ Len(chunks) >= 2

\* C4: an empty old text and a non-empty one-line new text give the single
\* insertion (0,0,0,|B|); a non-empty old text and an empty new text give the
\* single deletion (0,0,|A|,0); two empty texts give nothing.
C4_EmptyInputs ==
  Returned =>
    /\ (s1 = <<>> /\ s2 # <<>> /\ SingleLine(s2)) =>
         chunks = <<[pos1 |-> 0, pos2 |-> 0, len1 |-> 0, len2 |-> Len(s2)]>>
    /\ (s1 # <<>> /\ s2 = <<>>) =>
         chunks = <<[pos1 |-> 0, pos2 |-> 0, len1 |-> Len(s1), len2 |-> 0]>>
    /\ (s1 = <<>> /\ s2 = <<>>) => chunks = <<>>

\* C4 witness: the empty text was compared with a one-line text of 3 characters
C4_Witness ==
  /\ pc = "done" /\ s1 = <<>> /\ Len(s2) = 3 /\ SingleLine(s2)
  /\ chunks = <<[pos1 |-> 0, pos2 |-> 0, len1 |-> 0, len2 |-> 3]>>

\* C5: in every CalculateDifference run the chunks cover as many elements as
\* the cost FillTable returned for (0,0), and that cost is the least number of
\* skips of any alignment, len1 + len2 - 2 * LCS.
C5_CostIsMinimal ==
  pc = "done" =>
    \A k \in 1..Len(runs) :
      LET r == runs[k]
      IN  /\ r.res = ChunkSum(r.out) * Pow2(kDirectionSizeBits)
          /\ ChunkSum(r.out) = MinCost(RunSeq1(r), RunSeq2(r))

\* C5 witness: a run on two sequences of 3 elements with a common element,
\* whose cost is neither 0 nor the two lengths added
C5_Witness ==
  /\ pc = "done"
  /\ \E k \in 1..Len(runs) :
       /\ runs[k].len1 = 3 /\ runs[k].len2 = 3
       /\ ChunkSum(runs[k].out) = 2
       /\ Len(runs[k].out) = 2

----------------------------------------------------------------------------
(* C6..C10 *)

BelowLimit(s) == Len(s) < 800

\* the inputs other than the texts around the threshold
ShortTexts == Len(s1) <= MaxLen /\ Len(s2) <= MaxLen

\* C6 as claimed: the characters covered by the chunks of CompareStrings are
\* no more than those of any other chunk list turning the old text into the
\* new one, the least of which is |A| + |B| - 2 * LCS(A, B). Stated for the
\* short texts, where no chunk is written unsplit.
C6_Original ==
  (pc = "done" /\ ShortTexts) =>
    ChunkSum(chunks) <= MinCost(s1, s2)

\* C6 as amended: each pass is minimal at its own granularity. The line-level
\* chunks cover the fewest lines, every line-level chunk re-diffed covers the
\* fewest characters of its two spans, and two one-line texts below the
\* threshold get the fewest characters overall.
C6_MinimalWithinEachPass ==
  pc = "done" =>
    /\ ChunkSum(runs[1].out) = MinCost(LinesOf(s1), LinesOf(s2))
    /\ \A k \in 1..Len(calls) :
         LET c == calls[k]
         IN  c.nested =>
               ChunkSum(c.written) =
                 MinCost(SubSeq(s1, c.span.pos1 + 1, c.span.pos1 + c.span.len1),
                         SubSeq(s2, c.span.pos2 + 1, c.span.pos2 + c.span.len2))
    /\ (SingleLine(s1) /\ SingleLine(s2) /\ BelowLimit(s1) /\ BelowLimit(s2)) =>
         ChunkSum(chunks) = MinCost(s1, s2)

\* C6 witness: texts of several lines whose two line-level chunks were both
\* re-diffed and whose chunks cover more characters than the least possible
C6_Witness ==
  /\ pc = "done"
  /\ Len(calls) = 2 /\ calls[1].nested /\ calls[2].nested
  /\ ChunkSum(chunks) > MinCost(s1, s2)

IsCommonPrefix(p) == SubSeq(s1, 1, p) = SubSeq(s2, 1, p)

IsCommonSuffix(s) ==
  SubSeq(s1, Len(s1) - s + 1, Len(s1)) = SubSeq(s2, Len(s2) - s + 1, Len(s2))

\* every chunk lies in [p, |A| - s) of the old and [p, |B| - s) of the new text
ChunksInside(p, s) ==
  \A i \in 1..Len(chunks) :
    /\ p <= chunks[i].pos1 /\ chunks[i].pos1 + chunks[i].len1 <= Len(s1) - s
    /\ p <= chunks[i].pos2 /\ chunks[i].pos2 + chunks[i].len2 <= Len(s2) - s

\* C7 as claimed: for every way to write the texts as P+M1+S and P+M2+S no
\* chunk covers a position of P or of S. Stated for the short texts, where
\* no chunk is written unsplit.
C7_Original ==
  (pc = "done" /\ ShortTexts) =>
    \A p \in 0..Min(Len(s1), Len(s2)) :
      \A s \in 0..(Min(Len(s1), Len(s2)) - p) :
        (IsCommonPrefix(p) /\ IsCommonSuffix(s)) => ChunksInside(p, s)

\* the longest common prefix, in characters
LongestCommonPrefix == MaxOf({p \in 0..Min(Len(s1), Len(s2)) : IsCommonPrefix(p)})

\* the number of leading lines the texts share, and of trailing lines the
\* remainders share
CommonLinePrefix ==
  LET x == LinesOf(s1)
      y == LinesOf(s2)
  IN  MaxOf({n \in 0..Min(Len(x), Len(y)) : SubSeq(x, 1, n) = SubSeq(y, 1, n)})

CommonLineSuffix ==
  LET x == LinesOf(s1)
      y == LinesOf(s2)
      m == Min(Len(x), Len(y)) - CommonLinePrefix
  IN  MaxOf({n \in 0..m :
               SubSeq(x, Len(x) - n + 1, Len(x)) = SubSeq(y, Len(y) - n + 1, Len(y))})

RECURSIVE LenSum(_)
LenSum(ls) == IF ls = <<>> THEN 0 ELSE Len(Head(ls)) + LenSum(Tail(ls))

\* the characters of the first n lines of s
CharsOfLines(s, n) == LenSum(SubSeq(LinesOf(s), 1, n))

\* C7 as amended: with P the longest common prefix of whole lines and S the
\* longest common suffix of whole lines of what remains, no chunk covers a
\* position of P or of S; and for two one-line texts below the threshold no
\* chunk covers a position of any common prefix of characters. A chunk may
\* cover positions of a common suffix of characters.
C7_ChunksInsideTrimmedLines ==
  pc = "done" =>
    \A i \in 1..Len(chunks) :
      LET c == chunks[i]
      IN  /\ CharsOfLines(s1, CommonLinePrefix) <= c.pos1
          /\ CharsOfLines(s2, CommonLinePrefix) <= c.pos2
          /\ c.pos1 + c.len1 <= CharsOfLines(s1, LineCount(s1) - CommonLineSuffix)
          /\ c.pos2 + c.len2 <= CharsOfLines(s2, LineCount(s2) - CommonLineSuffix)
          /\ (SingleLine(s1) /\ SingleLine(s2) /\ BelowLimit(s1) /\ BelowLimit(s2)) =>
               (LongestCommonPrefix <= c.pos1 /\ LongestCommonPrefix <= c.pos2)

\* C7 witness: texts that share a first and a last line, each with a
\* terminator, and differ between them
C7_Witness ==
  /\ pc = "done"
  /\ CommonLinePrefix >= 1 /\ CharsOfLines(s1, CommonLinePrefix) >= 1
  /\ CommonLineSuffix >= 1
  /\ Len(chunks) >= 1

\* C8: a line-level chunk is re-diffed exactly when both of its character
\* lengths are below 800; otherwise it is written as the one chunk covering its
\* two character spans.
C8_Threshold ==
  Returned =>
    /\ \A k \in 1..Len(calls) :
         LET c == calls[k]
         IN  /\ c.nested <=> (c.span.len1 < 800 /\ c.span.len2 < 800)
             /\ c.nested <=> Len(c.run) = 1
             /\ ~c.nested => c.written = <<c.span>>
    /\ (s1 = Long(799) /\ s2 = <<"a">>) =>
         chunks = <<[pos1 |-> 1, pos2 |-> 1, len1 |-> 798, len2 |-> 0]>>
    /\ (s1 = Long(800) /\ s2 = <<"a">>) =>
         chunks = <<[pos1 |-> 0, pos2 |-> 0, len1 |-> 800, len2 |-> 1]>>
    /\ (s1 = <<"a">> /\ s2 = Long(800)) =>
         chunks = <<[pos1 |-> 0, pos2 |-> 0, len1 |-> 1, len2 |-> 800]>>

\* C8 witness: a line-level chunk of exactly 800 old characters was written
\* unsplit
C8_Witness ==
  /\ pc = "done"
  /\ Len(calls) = 1 /\ calls[1].span.len1 = 800 /\ calls[1].span.len2 = 1
  /\ ~calls[1].nested
  /\ chunks = <<calls[1].span>>

\* the positions at which the two texts differ, when they are equally long
DifferAt == {k \in 0..(Len(s1) - 1) : Get(s1, k) # Get(s2, k)}

OneCharChanged ==
  /\ Len(s1) = Len(s2) /\ BelowLimit(s1)
  /\ Cardinality(DifferAt) = 1

TheChange == CHOOSE k \in DifferAt : TRUE

\* C9 as claimed: two equally long texts below the threshold that differ at
\* the one position k get the one chunk (k, k, 1, 1).
C9_Original ==
  (pc = "done" /\ OneCharChanged) =>
    chunks = <<[pos1 |-> TheChange, pos2 |-> TheChange, len1 |-> 1, len2 |-> 1]>>

\* C9 as amended: they get the one chunk (k, k, 1, 1) when k is the last
\* position or the old character at k differs from the old character at k + 1;
\* otherwise they get two chunks, the first one the insertion (k, k, 0, 1).
C9_OneCharChanged ==
  (pc = "done" /\ OneCharChanged) =>
    LET k == TheChange
    IN  IF k = Len(s1) - 1 \/ Get(s1, k) # Get(s1, k + 1)
        THEN chunks = <<[pos1 |-> k, pos2 |-> k, len1 |-> 1, len2 |-> 1]>>
        ELSE /\ Len(chunks) = 2
             /\ chunks[1] = [pos1 |-> k, pos2 |-> k, len1 |-> 0, len2 |-> 1]

\* C9 witness: the one changed character is followed by a different old
\* character, and is isolated
C9_Witness ==
  /\ pc = "done" /\ OneCharChanged
  /\ TheChange = 1 /\ Len(s1) = 3 /\ Get(s1, 1) # Get(s1, 2)
  /\ chunks = <<[pos1 |-> 1, pos2 |-> 1, len1 |-> 1, len2 |-> 1]>>

\* the chunks of the array, as (change_begin, change_end, change_end_new)
Triple(i) == [begin |-> array_[3 * i - 2], end |-> array_[3 * i - 1],
              new_end |-> array_[3 * i]]

NumTriples == Len(array_) \div 3

Unchanged(p) == \A i \in 1..NumTriples : p < Triple(i).begin \/ p >= Triple(i).end

\* the length delta of the last chunk that begins at or before p
DeltaAt(p) ==
  LET B == {i \in 1..NumTriples : Triple(i).begin <= p}
  IN  IF B = {} THEN 0 ELSE Triple(MaxOf(B)).new_end - Triple(MaxOf(B)).end

\* C10: for a position p of the old text outside every changed region,
\* TranslatePosition returns p plus the length delta of the last chunk that
\* begins at or before p, the new text has there the character the old text
\* has at p, and the end of the old text maps to the end of the new text.
C10_TranslatePosition ==
  (pc = "translated" /\ Unchanged(tp.pos)) =>
    /\ tp.res = tp.pos + DeltaAt(tp.pos)
    /\ tp.pos < Len(s1) =>
         (tp.res \in 0..(Len(s2) - 1) /\ Get(s2, tp.res) = Get(s1, tp.pos))
    /\ tp.pos = Len(s1) => tp.res = Len(s2)

\* C10 witness: a position inside the old text behind two chunks, whose delta
\* is not the delta of the first chunk
C10_Witness ==
  /\ pc = "translated" /\ Unchanged(tp.pos)
  /\ NumTriples = 2
  /\ Triple(2).begin <= tp.pos /\ tp.pos < Len(s1)
  /\ Triple(1).new_end - Triple(1).end # 0
  /\ DeltaAt(tp.pos) # Triple(1).new_end - Triple(1).end
  /\ tp.res = tp.pos + DeltaAt(tp.pos)

----------------------------------------------------------------------------
(* Termination and the end of the SaveResult walk *)

\* the last step of run r's walk
LastStep(r) == r.log[Len(r.log)]

\* the step of run r's walk logged at index j is the tail step: the one taken
\* once an input is exhausted
IsTailStep(r, j) == r.log[j].dir = -1

\* C11: every diff comes to its end: the narrowed lengths are never negative,
\* the table is filled with a cost that is not negative, and when the result
\* is returned every run's writer stands at (len1, len2); what is left of the
\* longer input once the other is exhausted is given to the writer as one last
\* skip of its kind.
C11_Total ==
  /\ pc # "start" => in_len1 >= 0 /\ in_len2 >= 0
  /\ pc \in {"filled", "done"} => top.res >= 0
  /\ pc = "done" =>
       \A k \in 1..Len(runs) :
         LET r == runs[k] IN
         /\ r.pos1_ = r.len1 /\ r.pos2_ = r.len2
         /\ ~r.has_open_chunk_
         /\ \A j \in 1..Len(r.log) :
              LET e == r.log[j] IN
              /\ e.pos1 <= r.len1 /\ e.pos2 <= r.len2
              /\ IsTailStep(r, j) =>
                   /\ j = Len(r.log)
                   /\ e.op = "skip1" =>
                        e.pos2 = r.len2 /\ e.pos1 < r.len1 /\ e.n = r.len1 - e.pos1
                   /\ e.op = "skip2" =>
                        e.pos1 = r.len1 /\ e.pos2 < r.len2 /\ e.n = r.len2 - e.pos2
                   /\ e.op # "eq"
              /\ ~IsTailStep(r, j) => e.pos1 < r.len1 /\ e.pos2 < r.len2 /\ e.n = 1

\* C11 witness: a run that matched an element and then skipped the two left
\* of the old input in one step
C11_Witness ==
  /\ pc = "done"
  /\ \E k \in 1..Len(runs) :
       LET r == runs[k] IN
       /\ Len(r.log) = 2 /\ r.log[1].op = "eq"
       /\ IsTailStep(r, 2) /\ LastStep(r).op = "skip1" /\ LastStep(r).n = 2
       /\ r.pos1_ = r.len1 /\ r.pos2_ = r.len2 /\ r.len1 = 3

----------------------------------------------------------------------------
(* Chunks of one run *)

\* the step of run r's walk logged at index j begins a chain of skips
BeginsSkips(r, j) ==
  /\ r.log[j].op # "eq"
  /\ j = 1 \/ r.log[j - 1].op = "eq"

\* the indexes of r's walk where a chain of skips begins
SkipChains(r) == {j \in 1..Len(r.log) : BeginsSkips(r, j)}

RECURSIVE SkippedFrom(_, _)
\* the elements skipped by the chain of skips of r's walk that goes on at j
SkippedFrom(r, j) ==
  IF j > Len(r.log) \/ r.log[j].op = "eq" THEN 0
  ELSE r.log[j].n + SkippedFrom(r, j + 1)

\* C12: within one run every chain of skip1 and skip2 steps with no eq step
\* between them is one chunk, given to the output once: there are as many
\* chunks as chains, each chunk begins where a chain begins and covers what
\* the chain skipped, consecutive chunks have at least one equal element
\* between them on both sides, and no chunk is open after close().
C12_MaximalChunks ==
  pc = "done" =>
    \A k \in 1..Len(runs) :
      LET r == runs[k] IN
      /\ ~r.has_open_chunk_
      /\ Len(r.out) = Cardinality(SkipChains(r))
      /\ \A i \in 1..Len(r.out) :
           \E j \in SkipChains(r) :
             /\ r.log[j].pos1 = r.out[i].pos1 /\ r.log[j].pos2 = r.out[i].pos2
             /\ SkippedFrom(r, j) = r.out[i].len1 + r.out[i].len2
      /\ \A i \in 1..(Len(r.out) - 1) :
           /\ r.out[i].pos1 + r.out[i].len1 < r.out[i + 1].pos1
           /\ r.out[i].pos2 + r.out[i].len2 < r.out[i + 1].pos2

\* C12 witness: the line-level run merged a skip2 and a skip1 into one chunk
\* and the nested run gave two chunks with an equal character between them
C12_Witness ==
  /\ pc = "done" /\ Len(runs) = 2
  /\ Len(runs[1].log) = 2 /\ Len(runs[1].out) = 1
  /\ runs[1].out[1].len1 = 1 /\ runs[1].out[1].len2 = 1
  /\ Len(runs[2].out) = 2
  /\ \E j \in 1..Len(runs[2].log) : runs[2].log[j].op = "eq"

----------------------------------------------------------------------------
(* The walk of SaveResult at a tie *)

\* where run r's walk stands after the step logged at index j
AfterStep(r, j) ==
  IF j < Len(r.log)
  THEN [pos1 |-> r.log[j + 1].pos1, pos2 |-> r.log[j + 1].pos2]
  ELSE [pos1 |-> r.pos1_, pos2 |-> r.pos2_]

\* the equality of the elements run r compares
RunEq(r) ==
  IF r.level = "line"
  THEN LineInput(s1, s2, LineEndsWrapper(s1), LineEndsWrapper(s2),
                 r.off1, r.len1, r.off2, r.len2)
  ELSE TokensInput(s1, r.off1, r.len1, s2, r.off2, r.len2)

\* the cost of the best alignment of what is left of r's inputs from
\* (pos1, pos2), by longest common subsequence
TailCost(r, pos1, pos2) ==
  MinCost(SubSeq(RunSeq1(r), pos1 + 1, r.len1),
          SubSeq(RunSeq2(r), pos2 + 1, r.len2))

\* C13: a step of the walk at a cell tagged SKIP_ANY is a skip2 of one
\* element: the position in the new input advances by one and the position
\* in the old input stays; the cell has that tag exactly when its elements
\* differ and skipping on either side leaves the same cost.
C13_TieWalkedAsSkip2 ==
  pc = "done" =>
    \A k \in 1..Len(runs) :
      LET r == runs[k] IN
      \A j \in 1..Len(r.log) :
        LET e == r.log[j] IN
        /\ e.dir = SKIP_ANY =>
             /\ e.op = "skip2" /\ e.n = 1
             /\ AfterStep(r, j) = [pos1 |-> e.pos1, pos2 |-> e.pos2 + 1]
        /\ (ShortTexts /\ ~IsTailStep(r, j)) =>
             (e.dir = SKIP_ANY <=>
                /\ ~RunEq(r)[e.pos1, e.pos2]
                /\ TailCost(r, e.pos1 + 1, e.pos2) = TailCost(r, e.pos1, e.pos2 + 1))

\* C13 witness: a run whose first step is at a tie and is followed by an eq
\* step one element further in the new input
C13_Witness ==
  /\ pc = "done"
  /\ \E k \in 1..Len(runs) :
       LET r == runs[k] IN
       /\ Len(r.log) >= 2
       /\ r.log[1].dir = SKIP_ANY /\ r.log[1].op = "skip2"
       /\ r.log[2].op = "eq" /\ r.log[2].pos1 = 0 /\ r.log[2].pos2 = 1

\* C14 as claimed: a step of the walk at a cell tagged SKIP1 or SKIP_ANY is a
\* skip1 that advances the position in the old input, and only a cell tagged
\* SKIP2 advances the position in the new input. Stated for the short texts.
C14_Original ==
  (pc = "done" /\ ShortTexts) =>
    \A k \in 1..Len(runs) :
      LET r == runs[k] IN
      \A j \in 1..Len(r.log) :
        LET e == r.log[j] IN
        ~IsTailStep(r, j) =>
          /\ e.dir \in {SKIP1, SKIP_ANY} =>
               /\ e.op = "skip1"
               /\ AfterStep(r, j) = [pos1 |-> e.pos1 + 1, pos2 |-> e.pos2]
          /\ (e.dir # EQ /\ AfterStep(r, j).pos2 = e.pos2 + 1) => e.dir = SKIP2

\* C14, amended: the step of the walk follows the tag of the cell: EQ is an
\* eq step that advances both positions, SKIP1 is a skip1 that advances the
\* position in the old input only, and SKIP2 and SKIP_ANY are both a skip2
\* that advances the position in the new input only.
C14_StepFollowsTag ==
  pc = "done" =>
    \A k \in 1..Len(runs) :
      LET r == runs[k] IN
      \A j \in 1..Len(r.log) :
        LET e == r.log[j] IN
        ~IsTailStep(r, j) =>
          /\ e.dir \in {EQ, SKIP1, SKIP2, SKIP_ANY}
          /\ e.dir = EQ =>
               /\ e.op = "eq"
               /\ AfterStep(r, j) = [pos1 |-> e.pos1 + 1, pos2 |-> e.pos2 + 1]
          /\ e.dir = SKIP1 =>
               /\ e.op = "skip1"
               /\ AfterStep(r, j) = [pos1 |-> e.pos1 + 1, pos2 |-> e.pos2]
          /\ e.dir \in {SKIP2, SKIP_ANY} =>
               /\ e.op = "skip2"
               /\ AfterStep(r, j) = [pos1 |-> e.pos1, pos2 |-> e.pos2 + 1]

\* C14 witness: the walks of one diff took a step at a cell tagged SKIP1 and
\* a step at a cell tagged SKIP_ANY
C14_Witness ==
  /\ pc = "done"
  /\ \A d \in {SKIP1, SKIP_ANY} :
       \E k \in 1..Len(runs) :
         \E j \in 1..Len(runs[k].log) :
           /\ runs[k].log[j].dir = d
           /\ runs[k].log[j].op = (IF d = SKIP1 THEN "skip1" ELSE "skip2")

\* the table FillTable leaves for run r
RunTable(r) == FillTable(RunEq(r), r.len1, r.len2).buf

\* the writer after the walk of run r's table that takes SKIP_ANY as skip1
OtherWalk(r) ==
  W_close(SaveResultLoop_TieAsSkip1(RunTable(r), r.len1, r.len2, 0, 0,
                                    ResultWriter))

\* run r's walk took a step at a tie
MetTie(r) == \E j \in 1..Len(r.log) : r.log[j].dir = SKIP_ANY

\* C15 as claimed: walking the ties of a run's table as skip1 gives the chunk
\* list that walking them as skip2 gave. Stated for the short texts.
C15_Original ==
  (pc = "done" /\ ShortTexts) =>
    \A k \in 1..Len(runs) : OtherWalk(runs[k]).out = runs[k].out

\* C15, amended: walking the ties of a run's table as skip1 gives a chunk list
\* that also turns the old sequence into the new one and covers as many
\* elements as the list that walking them as skip2 gave, the fewest any list
\* can cover; the two lists are the same when the walk met no tie.
C15_TieChoiceKeepsCost ==
  pc = "done" =>
    \A k \in 1..Len(runs) :
      LET r == runs[k]
          o == OtherWalk(r)
      IN  /\ o.pos1_ = r.len1 /\ o.pos2_ = r.len2
          /\ ChunkSum(o.out) = ChunkSum(r.out)
          /\ ChunkSum(o.out) = MinCost(RunSeq1(r), RunSeq2(r))
          /\ ApplyChunks(RunSeq1(r), RunSeq2(r), o.out) = RunSeq2(r)
          /\ ~MetTie(r) => o.out = r.out

\* C15 witness: a run that met a tie, where the other walk gives one chunk
\* and the walk taken gave two
C15_Witness ==
  /\ pc = "done"
  /\ \E k \in 1..Len(runs) :
       LET r == runs[k]
           o == OtherWalk(r)
       IN  /\ MetTie(r)
           /\ Len(r.out) = 2 /\ Len(o.out) = 1
           /\ ChunkSum(o.out) = ChunkSum(r.out)

----------------------------------------------------------------------------
(* The costs in the table *)

\* what CompareUpToTail returns for (pos1, pos2) on run r's elements eq and
\* the table buf FillTable left, without the direction bits
CostAt(r, eq, buf, pos1, pos2) ==
  CompareUpToTail(eq, r.len1, r.len2, buf, <<>>, pos1, pos2).res
    \div Pow2(kDirectionSizeBits)

\* the costs of all positions of run r, borders included
Costs(r) ==
  LET eq == RunEq(r)
      buf == FillTable(eq, r.len1, r.len2).buf
  IN  [i \in 0..r.len1, j \in 0..r.len2 |-> CostAt(r, eq, buf, i, j)]

\* C16 as claimed: the cost never grows towards the end of the inputs: one
\* step on in the old input, in the new input or in both leaves a cost that
\* is no greater, and the cost at (len1, len2) is 0. Stated for the short
\* texts.
C16_Original ==
  (pc = "done" /\ ShortTexts) =>
    \A k \in 1..Len(runs) :
      LET r == runs[k]
          cost == Costs(r)
      IN  /\ cost[r.len1, r.len2] = 0
          /\ \A i \in 0..r.len1, j \in 0..r.len2 :
               /\ i < r.len1 => cost[i + 1, j] <= cost[i, j]
               /\ j < r.len2 => cost[i, j + 1] <= cost[i, j]
               /\ (i < r.len1 /\ j < r.len2) => cost[i + 1, j + 1] <= cost[i, j]

\* C16, amended: one step on in both inputs leaves a cost that is no greater;
\* one step on in one input changes the cost by exactly one, up or down; no
\* cost is negative and the cost at (len1, len2) is 0. Stated for the short
\* texts.
C16_CostSteps ==
  (pc = "done" /\ ShortTexts) =>
    \A k \in 1..Len(runs) :
      LET r == runs[k]
          cost == Costs(r)
      IN  /\ cost[r.len1, r.len2] = 0
          /\ \A i \in 0..r.len1, j \in 0..r.len2 :
               /\ cost[i, j] >= 0
               /\ i < r.len1 => cost[i + 1, j] - cost[i, j] \in {-1, 1}
               /\ j < r.len2 => cost[i, j + 1] - cost[i, j] \in {-1, 1}
               /\ (i < r.len1 /\ j < r.len2) => cost[i + 1, j + 1] <= cost[i, j]

\* C16 witness: a run of two elements against two where the cost at (0,0) is
\* 2, grows to 3 one step on in the old input, is 2 again one step on in
\* both and 0 at the end
C16_Witness ==
  /\ pc = "done" /\ ShortTexts
  /\ \E k \in 1..Len(runs) :
       LET r == runs[k]
           cost == Costs(r)
       IN  /\ r.len1 = 2 /\ r.len2 = 2
           /\ cost[0, 0] = 2 /\ cost[1, 0] = 3
           /\ cost[1, 1] = 2 /\ cost[2, 2] = 0

----------------------------------------------------------------------------
(* Memoization *)

\* the cells of run r's table, as <<pos1, pos2>>
Cells(r) == (0..(r.len1 - 1)) \X (0..(r.len2 - 1))

\* the cells FillTable stored in run r
Stored(r) == {r.stores[n] : n \in 1..Len(r.stores)}

\* C17: FillTable stores each cell at most once; a stored cell holds a cost
\* of at least 0 with a direction, which is never the empty-cell value, so a
\* later visit takes the stored cost; the cells never visited still hold the
\* empty-cell value, and on the short texts the stored cost is the cost of
\* the best alignment from that cell on.
C17_StoredOnce ==
  pc = "done" =>
    \A k \in 1..Len(runs) :
      LET r == runs[k]
          buf == RunTable(r)
      IN  /\ \A m, n \in 1..Len(r.stores) : r.stores[m] = r.stores[n] => m = n
          /\ Stored(r) \subseteq Cells(r)
          /\ \A c \in Cells(r) :
               LET packed == buf[get_cell(r.len1, c[1], c[2])] IN
               IF c \in Stored(r)
               THEN /\ packed # kEmptyCellValue
                    /\ get_value4(buf, r.len1, c[1], c[2]) >= 0
                    /\ get_value4(buf, r.len1, c[1], c[2]) # kEmptyCellValue
                    /\ ShortTexts =>
                         get_value4(buf, r.len1, c[1], c[2])
                           = TailCost(r, c[1], c[2]) * Pow2(kDirectionSizeBits)
               ELSE packed = kEmptyCellValue
          /\ r.level = "line" => buf = buffer_

\* C17 witness: a run of two elements against two with no equal pair at
\* (0,0), (1,0) and (0,1): the cell (1,1) is visited from (1,0) and again
\* from (0,1), and the four cells are each stored once
C17_Witness ==
  /\ pc = "done"
  /\ \E k \in 1..Len(runs) :
       LET r == runs[k]
           eq == RunEq(r)
       IN  /\ r.len1 = 2 /\ r.len2 = 2
           /\ ~eq[0, 0] /\ ~eq[1, 0] /\ ~eq[0, 1]
           /\ Len(r.stores) = 4 /\ Stored(r) = Cells(r)

----------------------------------------------------------------------------
(* NarrowDownInput *)

\* the Equals answers of the line input before NarrowDownInput
WholeLineInput ==
  LineInput(s1, s2, LineEndsWrapper(s1), LineEndsWrapper(s2),
            0, LineCount(s1), 0, LineCount(s2))

\* the Equals answers of the line input over its subrange in this state
NarrowedLineInput ==
  LineInput(s1, s2, LineEndsWrapper(s1), LineEndsWrapper(s2),
            in_off1, in_len1, in_off2, in_len2)

\* C18: after NarrowDownInput the offset of both inputs is the number of
\* leading lines the texts share, and the lengths are the numbers of lines
\* less that prefix and less the number of trailing lines the remainders
\* share; prefix and suffix together are no more than the lines of the
\* shorter text, and Equals(i, j) of the narrowed input is Equals of the
\* whole input at (i + prefix, j + prefix), the equality of those two lines.
C18_NarrowDownInput ==
  pc = "narrowed" =>
    LET x == LinesOf(s1)
        y == LinesOf(s2)
        prefix == CommonLinePrefix
        suffix == CommonLineSuffix
        whole == WholeLineInput
        eq == NarrowedLineInput
    IN  /\ in_off1 = prefix /\ in_off2 = prefix
        /\ in_len1 = Len(x) - prefix - suffix
        /\ in_len2 = Len(y) - prefix - suffix
        /\ prefix + suffix <= Min(Len(x), Len(y))
        /\ in_len1 >= 0 /\ in_len2 >= 0
        /\ \A i \in 0..(in_len1 - 1), j \in 0..(in_len2 - 1) :
             /\ eq[i, j] = whole[i + prefix, j + prefix]
             /\ eq[i, j] = (x[i + prefix + 1] = y[j + prefix + 1])

\* C18 witness: a line was trimmed at each end and one line is left of each
\* text, and the two differ
C18_Witness ==
  /\ pc = "narrowed"
  /\ in_off1 = 1 /\ in_off2 = 1
  /\ in_len1 = 1 /\ in_len2 = 1
  /\ LineCount(s1) = 3 /\ LineCount(s2) = 3
  /\ ~NarrowedLineInput[0, 0]

\* C19: every chunk of the line-level run is handed to the line-level output
\* with the common prefix added to both positions, so in absolute lines it
\* begins at or after the common prefix and ends at or before the common
\* suffix, in the old and in the new text.
C19_ChunksInAbsoluteLines ==
  pc = "done" =>
    LET prefix == CommonLinePrefix
        suffix == CommonLineSuffix
    IN  /\ Len(calls) = Len(runs[1].out)
        /\ \A k \in 1..Len(calls) :
             LET c == calls[k].lines
                 o == runs[1].out[k]
             IN  /\ c.pos1 = o.pos1 + prefix /\ c.pos2 = o.pos2 + prefix
                 /\ c.len1 = o.len1 /\ c.len2 = o.len2
                 /\ prefix <= c.pos1
                 /\ c.pos1 + c.len1 <= LineCount(s1) - suffix
                 /\ prefix <= c.pos2
                 /\ c.pos2 + c.len2 <= LineCount(s2) - suffix

\* C19 witness: one line was trimmed at each end and the chunk of the line
\* between them was handed over at line 1 of both texts
C19_Witness ==
  /\ pc = "done"
  /\ CommonLinePrefix = 1 /\ CommonLineSuffix = 1
  /\ Len(calls) = 1
  /\ runs[1].out[1].pos1 = 0 /\ runs[1].out[1].pos2 = 0
  /\ calls[1].lines = [pos1 |-> 1, pos2 |-> 1, len1 |-> 1, len2 |-> 1]

\* the chunks CalculateDifference gives for the whole line input, had
\* NarrowDownInput not been called
WholeRunChunks ==
  CalculateDifference(WholeLineInput, LineCount(s1), LineCount(s2)).out

\* the line-level chunks as handed to the output, in absolute lines
AbsoluteLineChunks == [k \in 1..Len(calls) |-> calls[k].lines]

\* C20 as claimed: CalculateDifference on the whole line input gives the
\* chunk list, in absolute lines, that it gives after NarrowDownInput. Stated
\* for the short texts.
C20_Original ==
  (pc = "done" /\ ShortTexts) => WholeRunChunks = AbsoluteLineChunks

\* C20, amended: the chunk list of the whole line input and the one given
\* after NarrowDownInput cover the same number of lines, both turn the lines
\* of the old text into those of the new, and they are the same list when no
\* common suffix was trimmed.
C20_NarrowingKeepsCost ==
  pc = "done" =>
    LET whole == WholeRunChunks
        narrow == AbsoluteLineChunks
        x == LinesOf(s1)
        y == LinesOf(s2)
    IN  /\ ChunkSum(whole) = ChunkSum(narrow)
        /\ ApplyChunks(x, y, whole) = y
        /\ ApplyChunks(x, y, narrow) = y
        /\ in_off1 + in_len1 = LineCount(s1) => whole = narrow

\* C20 witness: a common suffix of two lines was trimmed and one chunk given
\* where the whole line input gives two
C20_Witness ==
  /\ pc = "done"
  /\ in_off1 = 0 /\ in_len1 = LineCount(s1) - 2
  /\ Len(AbsoluteLineChunks) = 1 /\ Len(WholeRunChunks) = 2
  /\ ChunkSum(AbsoluteLineChunks) = ChunkSum(WholeRunChunks)

----------------------------------------------------------------------------
(* The nested pass *)

\* the two character spans of the line-level chunk handled by call c
SpanText1(c) == SubSeq(s1, c.span.pos1 + 1, c.span.pos1 + c.span.len1)

SpanText2(c) == SubSeq(s2, c.span.pos2 + 1, c.span.pos2 + c.span.len2)

\* the characters the two spans of call c share at their beginning, and
\* those the remainders share at their end
SpanPrefix(c) ==
  LET x == SpanText1(c)
      y == SpanText2(c)
  IN  MaxOf({n \in 0..Min(Len(x), Len(y)) : SubSeq(x, 1, n) = SubSeq(y, 1, n)})

SpanSuffix(c) ==
  LET x == SpanText1(c)
      y == SpanText2(c)
      m == Min(Len(x), Len(y)) - SpanPrefix(c)
  IN  MaxOf({n \in 0..m :
               SubSeq(x, Len(x) - n + 1, Len(x)) = SubSeq(y, Len(y) - n + 1, Len(y))})

----------------------------------------------------------------------------
(* LineEndsWrapper *)

\* the number of line terminators of s
Terminators(s) == Cardinality({i \in 1..Len(s) : s[i] = NL})

\* the lines LineEndsWrapper gives for s are Terminators(s) + 1 spans that
\* follow one another from 0 to the length of s; each but the last ends with
\* its terminator, which is its only one, and the last has none
LinesPartition(s) ==
  LET le == LineEndsWrapper(s)
      n == Terminators(s)
  IN  /\ LE_length(le) = n + 1
      /\ GetLineStart(le, 0) = 0
      /\ GetLineEnd(le, n) = Len(s)
      /\ \A k \in 0..n : GetLineStart(le, k) <= GetLineEnd(le, k)
      /\ \A k \in 0..(n - 1) :
           /\ GetLineStart(le, k + 1) = GetLineEnd(le, k)
           /\ GetLineStart(le, k) <= GetLineStart(le, k + 1)
           /\ GetLineStart(le, k) < GetLineEnd(le, k)
           /\ s[GetLineEnd(le, k)] = NL
      /\ \A k \in 0..n :
           \A i \in (GetLineStart(le, k) + 1)..(GetLineEnd(le, k) - 1) : s[i] # NL
      /\ s # <<>> /\ s[Len(s)] # NL => GetLineStart(le, n) < GetLineEnd(le, n)
      /\ s = <<>> => LE_length(le) = 1 /\ GetLineStart(le, 0) = GetLineEnd(le, 0)

\* C22: the lines of each of the two texts, as LineEndsWrapper gives them to
\* the line input, are one more than the text has terminators and partition
\* the text: the first begins at 0, each begins where the one before ends,
\* the last ends at the length of the text, every line but the last is not
\* empty, and the empty text is one line of length 0.
C22_LinesPartition ==
  pc = "narrowed" => LinesPartition(s1) /\ LinesPartition(s2)

\* C22 witness: an old text of three lines, of 2, 1 and 0 characters, and an
\* empty new text
C22_Witness ==
  /\ pc = "narrowed" /\ s2 = <<>>
  /\ LET le == LineEndsWrapper(s1) IN
       /\ LE_length(le) = 3
       /\ GetLineStart(le, 1) = 2 /\ GetLineEnd(le, 1) = 3
       /\ GetLineStart(le, 2) = 3 /\ GetLineEnd(le, 2) = 3
  /\ LE_length(LineEndsWrapper(s2)) = 1

----------------------------------------------------------------------------
(* Capacity *)

\* C23: a Differencer whose len1_ * len2_ is no int reports it and goes no
\* further: no buffer is allocated, no table filled and nothing given to the
\* output for such lengths.
C23_CapacityChecked ==
  dpc \in {"constructed", "initialized", "filled", "saved"} =>
    FitsInt(len1_, len2_)

----------------------------------------------------------------------------
(* The written triples *)

RECURSIVE LengthDelta(_)
\* the characters the chunks cs add to the text, removed ones counted down
LengthDelta(cs) ==
  IF cs = <<>> THEN 0 ELSE Head(cs).len2 - Head(cs).len1 + LengthDelta(Tail(cs))

\* the start in the new text of the chunk written as triple k, from the
\* triples alone
NewStart(k) ==
  Triple(k).begin + (IF k = 1 THEN 0 ELSE Triple(k - 1).new_end - Triple(k - 1).end)

\* C24: every WriteChunk call leaves the triple (pos1, pos1 + len1,
\* pos2 + len2) in the array, and the start of a chunk in the new text is its
\* start in the old text plus what the chunks before it added: pos2, and so
\* len2, can be read off the triples.
C24_TriplesKeepAll ==
  pc = "done" =>
    /\ Len(array_) = 3 * Len(chunks)
    /\ \A k \in 1..Len(chunks) :
         LET c == chunks[k] IN
         /\ Triple(k) = [begin |-> c.pos1, end |-> c.pos1 + c.len1,
                         new_end |-> c.pos2 + c.len2]
         /\ c.pos2 = c.pos1 + LengthDelta(SubSeq(chunks, 1, k - 1))
         /\ c.pos2 = NewStart(k)
         /\ c.len2 = Triple(k).new_end - NewStart(k)
         /\ c.len1 = Triple(k).end - Triple(k).begin

\* C24 witness: two chunks written, the first adds a character, and the start
\* of the second in the new text is one more than its start in the old text
C24_Witness ==
  /\ pc = "done" /\ Len(chunks) = 2
  /\ chunks[1].len2 - chunks[1].len1 = 1
  /\ chunks[2].pos2 = chunks[2].pos1 + 1
  /\ NewStart(2) = chunks[2].pos2
  /\ chunks[2].len2 > 0

----------------------------------------------------------------------------
(* Empty chunks *)

\* C25: no chunk is empty: every chunk a run gives to its output, every
\* character span made of a line-level chunk and every chunk written to the
\* array covers at least one element of one of the two texts.
C25_NoEmptyChunk ==
  pc = "done" =>
    /\ \A k \in 1..Len(runs) :
         \A n \in 1..Len(runs[k].out) :
           /\ runs[k].out[n].len1 >= 0 /\ runs[k].out[n].len2 >= 0
           /\ runs[k].out[n].len1 + runs[k].out[n].len2 > 0
    /\ \A k \in 1..Len(calls) :
         /\ calls[k].span.len1 >= 0 /\ calls[k].span.len2 >= 0
         /\ calls[k].span.len1 + calls[k].span.len2 > 0
         /\ Len(calls[k].written) > 0
    /\ \A k \in 1..Len(chunks) :
         /\ chunks[k].len1 >= 0 /\ chunks[k].len2 >= 0
         /\ chunks[k].len1 + chunks[k].len2 > 0

\* C25 witness: a line-level chunk whose old side is the empty last line of
\* the old text alone: its old span has no character, its new span has some,
\* and the chunk written for it is not empty
C25_Witness ==
  /\ pc = "done" /\ Len(calls) = 1 /\ Len(chunks) = 1
  /\ calls[1].lines.len1 = 1
  /\ calls[1].lines.pos1 + 1 = LineCount(s1)
  /\ calls[1].span.len1 = 0 /\ calls[1].span.len2 > 0
  /\ chunks[1].len1 = 0 /\ chunks[1].len2 > 0

----------------------------------------------------------------------------
(* The cells SaveResult reads *)

\* C26: every cell whose direction the walk of a run reads was stored by
\* FillTable: it does not hold the empty-cell value, the direction read is
\* the one stored, and an eq step is taken only at a pair of equal elements,
\* a skip step only at a pair of unequal ones.
C26_ReadsStoredCells ==
  pc = "done" =>
    \A k \in 1..Len(runs) :
      LET r == runs[k]
          buf == RunTable(r)
          eq == RunEq(r)
      IN  \A j \in 1..Len(r.log) :
            LET e == r.log[j] IN
            ~IsTailStep(r, j) =>
              /\ <<e.pos1, e.pos2>> \in Stored(r)
              /\ buf[get_cell(r.len1, e.pos1, e.pos2)] # kEmptyCellValue
              /\ e.dir = get_direction(buf, r.len1, e.pos1, e.pos2)
              /\ (e.op = "eq") = eq[e.pos1, e.pos2]

\* C26 witness: a run of two elements against two that left a cell empty:
\* its walk took an eq step and a skip step and read stored cells only
C26_Witness ==
  /\ pc = "done"
  /\ \E k \in 1..Len(runs) :
       LET r == runs[k]
           buf == RunTable(r)
       IN  /\ r.len1 = 2 /\ r.len2 = 2
           /\ \E c \in Cells(r) : buf[get_cell(r.len1, c[1], c[2])] = kEmptyCellValue
           /\ r.log[1].op = "eq"
           /\ \E j \in 1..Len(r.log) : r.log[j].dir \in {SKIP1, SKIP2, SKIP_ANY}
           /\ \A j \in 1..Len(r.log) :
                ~IsTailStep(r, j) => <<r.log[j].pos1, r.log[j].pos2>> \in Stored(r)

----------------------------------------------------------------------------
(* The OutputStreamWriter's chunk *)

\* C27: between calls of the writer 0 <= chunk_pos_ < chunk_size_, the
\* DCHECK(chunk_pos_ < chunk_size_) of AddCharacter and of Finalize never
\* fails and nothing is written past the end of chunk_, also after the
\* stream answered kAbort.
C27_ChunkHasRoom ==
  /\ st = "ok" => 0 <= chunk_pos_ /\ chunk_pos_ < chunk_size_
  /\ failed # "chunk_pos_ < chunk_size_"
  /\ past_end = 0

\* C28: AddSubstring(s, n) returns in every state of the writer, also after
\* the stream answered kAbort: every turn of its loop copies at least one
\* character (s_chunk_size > 0), so the loop is never left running and its
\* DCHECK never fails.
C28_AddSubstringEnds ==
  /\ st # "looping"
  /\ failed # "s_chunk_size > 0"

----------------------------------------------------------------------------
(* What the stream receives *)

RECURSIVE Received(_)
\* the characters of the chunks passed to WriteAsciiChunk in the events es,
\* in order
Received(es) ==
  IF es = <<>> THEN <<>>
  ELSE IF Head(es).call = "WriteAsciiChunk"
       THEN Head(es).data \o Received(Tail(es))
       ELSE Received(Tail(es))

\* the events es end with EndOfStream
Ended(es) == es # <<>> /\ es[Len(es)].call = "EndOfStream"

\* C29: with a stream that never answers kAbort, after any calls of the
\* writer every chunk the stream got is full unless the Finalize that
\* passed it signalled EndOfStream right after, no chunk is empty, and the
\* chunks and the characters waiting in chunk_ are the added characters in
\* order; a Finalize called now passes the waiting characters as one chunk
\* of 1 to chunk_size_ - 1 characters, or no chunk when none waits, and
\* signals EndOfStream last, and then the stream has got exactly the added
\* characters.
C29_DeliversAll ==
  abort_at = 0 =>
    LET f == Finalize(Writer)
        n == Len(events)
    IN /\ st = "ok"
       /\ past_end = 0
       /\ \A i \in 1..n :
            events[i].call = "WriteAsciiChunk" =>
              /\ Len(events[i].data) \in 1..chunk_size_
              /\ events[i].answer = "kContinue"
              /\ Len(events[i].data) < chunk_size_ =>
                   i < n /\ events[i + 1].call = "EndOfStream"
       /\ Received(events) \o ChunkData(Writer, chunk_pos_) = added
       /\ f.st = "ok"
       /\ f.added = added
       /\ Received(f.events) = added
       /\ Ended(f.events)
       /\ SubSeq(f.events, 1, n) = events
       /\ IF chunk_pos_ = 0
          THEN Len(f.events) = n + 1
          ELSE /\ Len(f.events) = n + 2
               /\ f.events[n + 1].call = "WriteAsciiChunk"
               /\ Len(f.events[n + 1].data) = chunk_pos_
               /\ chunk_pos_ \in 1..(chunk_size_ - 1)

\* AddNumber(2147483647), AddString("defg") and Finalize on a writer with
\* chunks of 12: a full chunk, a chunk of two characters, EndOfStream
C29_Witness ==
  /\ abort_at = 0
  /\ chunk_size_ = 12
  /\ added = <<50, 49, 52, 55, 52, 56, 51, 54, 52, 55, 100, 101, 102, 103>>
  /\ events = <<[call |-> "WriteAsciiChunk", answer |-> "kContinue",
                 data |-> <<50, 49, 52, 55, 52, 56, 51, 54, 52, 55, 100, 101>>],
                [call |-> "WriteAsciiChunk", answer |-> "kContinue",
                 data |-> <<102, 103>>],
                [call |-> "EndOfStream"]>>

\* C30: once WriteAsciiChunk answered kAbort the writer is aborted for good
\* and the stream is not called again: no WriteAsciiChunk whatever is added,
\* and neither a chunk nor EndOfStream from Finalize.
C30_AbortIsFinal ==
  /\ \A i \in 1..Len(events) :
       (events[i].call = "WriteAsciiChunk" /\ events[i].answer = "kAbort") =>
         aborted_ /\ i = Len(events)
  /\ aborted_ => Finalize(Writer).events = events

============================================================================
